---- MODULE Spec2Model ----
(***************************************************************************)
(* Model of web-servidor: the connection handler of index.js and the       *)
(* request parser, resource resolver, response builder, serializer and     *)
(* template engine of modules/shared/util.js.                              *)
(*                                                                         *)
(* Text is modelled at the level of single characters: a JS string is a    *)
(* sequence of one-character strings (code units), a Buffer is a sequence  *)
(* of bytes.  An ASCII byte is written as its character; the bytes above   *)
(* 0x7F that the model uses are written "0xC3", "0xA9", ...; the code      *)
(* units above U+007F are written "U+00E9", "U+FFFD", ...; the grave       *)
(* accent and the apostrophe are written "U+0060" and "U+0027".            *)
(***************************************************************************)
EXTENDS Integers, Sequences, FiniteSets, TLC

VARIABLES
    requestBytes,   \* the bytes the client means to send on the connection
    unsent,         \* the suffix of requestBytes not yet delivered
    chunks,         \* the 'data' events delivered so far, in order
    parsed,         \* the Requests parseRequest returned, one per call
    parseCalls,     \* number of parseRequest calls on the connection
    responses,      \* the Responses createResponse returned, one per call
    createCalls,    \* number of createResponse calls on the connection
    writeCalls,     \* number of conn.write calls on the connection
    wire,           \* the bytes written to the socket before conn.end()
    ended,          \* conn.end() has been called
    conn,           \* "open", "clientEnded", "destroyed"
    crashed,        \* an exception escaped a handler (nobody catches it)
    cgiData,        \* runCGI: the document given
    cgiParams,      \* runCGI: the params object given
    cgiOut,         \* runCGI: the result, once it ran
    cgiPc           \* "idle", "ready", "done"

vars == <<requestBytes, unsent, chunks, parsed, parseCalls, responses,
          createCalls, writeCalls, wire, ended, conn, crashed,
          cgiData, cgiParams, cgiOut, cgiPc>>

connVars == <<requestBytes, unsent, chunks, parsed, parseCalls, responses,
              createCalls, writeCalls, wire, ended, conn, crashed>>

cgiVars == <<cgiData, cgiParams, cgiOut, cgiPc>>

-----------------------------------------------------------------------------
(* JS values: null/undefined/false are the empty tuple, a present value v   *)
(* is <<v>>; a header value is a tagged number or string.                    *)

Null == <<>>

Some(v) == <<v>>

Num(n) == [num |-> n]

Str(s) == [str |-> s]

(* Result of a call that may throw. *)
Ok(v) == [threw |-> FALSE, val |-> v]

Throw == [threw |-> TRUE, val |-> Null]

-----------------------------------------------------------------------------
(* String primitives of the JS runtime the code calls. *)

StartsAt(s, pat, i) ==
    /\ i + Len(pat) - 1 <= Len(s)
    /\ \A k \in 1..Len(pat) : s[i + k - 1] = pat[k]

(* String.prototype.indexOf(pat, from), 0-based, -1 when absent. *)
IndexOfFrom(s, pat, from) ==
    LET hits == {i \in (from + 1)..(Len(s) - Len(pat) + 1) : StartsAt(s, pat, i)}
    IN  IF hits = {} THEN -1
        ELSE (CHOOSE i \in hits : \A j \in hits : i <= j) - 1

indexOf(s, pat) == IndexOfFrom(s, pat, 0)

(* String.prototype.substring(a, b) and substring(a). *)
substring(s, a, b) == SubSeq(s, a + 1, b)

substringFrom(s, a) == SubSeq(s, a + 1, Len(s))

RECURSIVE split(_, _)
(* String.prototype.split(sep) for a non-empty separator. *)
split(s, sep) ==
    LET k == indexOf(s, sep)
    IN  IF k < 0 THEN <<s>>
        ELSE <<substring(s, 0, k)>> \o split(substringFrom(s, k + Len(sep)), sep)

WhiteSpace == {" ", "\t", "\r", "\n"}

RECURSIVE trimStart(_)
trimStart(s) ==
    IF s # <<>> /\ Head(s) \in WhiteSpace THEN trimStart(Tail(s)) ELSE s

RECURSIVE trimEnd(_)
trimEnd(s) ==
    IF s # <<>> /\ s[Len(s)] \in WhiteSpace
    THEN trimEnd(SubSeq(s, 1, Len(s) - 1)) ELSE s

(* String.prototype.trim *)
trim(s) == trimEnd(trimStart(s))

Digit(d) == <<"0", "1", "2", "3", "4", "5", "6", "7", "8", "9">>[d + 1]

RECURSIVE NumberToString(_)
(* ToString of a non-negative integer, as a template literal renders it. *)
NumberToString(n) ==
    IF n < 10 THEN <<Digit(n)>>
    ELSE NumberToString(n \div 10) \o <<Digit(n % 10)>>

-----------------------------------------------------------------------------
(* Buffer <-> string: UTF-8. *)

ContinuationBytes == {"0xA9", "0xBF", "0xBD"}

HighBytes == {"0xC3", "0xEF", "0xFF"} \cup ContinuationBytes

(* The code unit of the two-byte sequence 0xC3 b. *)
TwoByteChar(b) ==
    CASE b = "0xA9" -> "U+00E9"
      [] b = "0xBF" -> "U+00FF"
      [] b = "0xBD" -> "U+00FD"

(* Byte i of b continues the sequence a lead byte before it began: the    *)
(* second byte of 0xC3 xx, the second of 0xEF 0xBF, the third of           *)
(* 0xEF 0xBF 0xBD.                                                          *)
Continues(b, i) ==
    \/ i > 1 /\ b[i] \in ContinuationBytes /\ b[i - 1] = "0xC3"
    \/ i > 1 /\ b[i] = "0xBF" /\ b[i - 1] = "0xEF"
    \/ i > 2 /\ b[i] = "0xBD" /\ b[i - 1] = "0xBF" /\ b[i - 2] = "0xEF"

(* The code unit decoded from the sequence that starts at byte i. *)
DecodeAt(b, i) ==
    IF b[i] \notin HighBytes THEN b[i]
    ELSE IF b[i] = "0xC3" /\ i < Len(b) /\ b[i + 1] \in ContinuationBytes
         THEN TwoByteChar(b[i + 1])
    ELSE "U+FFFD"

(* Buffer.prototype.toString(): UTF-8 decoding; every ill-formed maximal   *)
(* subpart becomes one U+FFFD.                                              *)
BufferToString(b) ==
    LET units == SelectSeq([i \in 1..Len(b) |-> <<Continues(b, i), DecodeAt(b, i)>>],
                           LAMBDA u : ~u[1])
    IN  [i \in 1..Len(units) |-> units[i][2]]

(* The UTF-8 bytes of one code unit. *)
EncodeChar(c) ==
    CASE c = "U+00E9" -> <<"0xC3", "0xA9">>
      [] c = "U+00FF" -> <<"0xC3", "0xBF">>
      [] c = "U+00FD" -> <<"0xC3", "0xBD">>
      [] c = "U+FFFD" -> <<"0xEF", "0xBF", "0xBD">>
      [] OTHER -> <<c>>

RECURSIVE EncodeRange(_, _, _)
(* The UTF-8 bytes of s[lo..hi]. *)
EncodeRange(s, lo, hi) ==
    IF lo > hi THEN <<>>
    ELSE IF lo = hi THEN EncodeChar(s[lo])
    ELSE EncodeRange(s, lo, (lo + hi) \div 2)
         \o EncodeRange(s, (lo + hi) \div 2 + 1, hi)

(* Buffer.from(string): UTF-8 encoding. *)
BufferFrom(s) == EncodeRange(s, 1, Len(s))

-----------------------------------------------------------------------------
(* String literals of the source. *)

sGET ==
    <<"G", "E", "T">>

sHEAD ==
    <<"H", "E", "A", "D">>

sPOST ==
    <<"P", "O", "S", "T">>

sPUT ==
    <<"P", "U", "T">>

sAccept ==
    <<"A", "c", "c", "e", "p", "t">>

sAnyType ==
    <<"*", "/", "*">>

sUndefined ==
    <<"u", "n", "d", "e", "f", "i", "n", "e", "d">>

sTextHtml ==
    <<"t", "e", "x", "t", "/", "h", "t", "m", "l">>

sImageJpeg ==
    <<"i", "m", "a", "g", "e", "/", "j", "p", "e", "g">>

sImagePng ==
    <<"i", "m", "a", "g", "e", "/", "p", "n", "g">>

sImageGif ==
    <<"i", "m", "a", "g", "e", "/", "g", "i", "f">>

sImageAny ==
    <<"i", "m", "a", "g", "e", "/", "*">>

sHtml ==
    <<"h", "t", "m", "l">>

sJpeg ==
    <<"j", "p", "e", "g">>

sPng ==
    <<"p", "n", "g">>

sGif ==
    <<"g", "i", "f">>

sText ==
    <<"t", "e", "x", "t">>

sIndexHtml ==
    <<"i", "n", "d", "e", "x", ".", "h", "t", "m", "l">>

sProcesoHtml ==
    <<"p", "r", "o", "c", "e", "s", "o", ".", "h", "t", "m", "l">>

sImagen4Jpeg ==
    <<"i", "m", "a", "g", "e", "n", "4", ".", "j", "p", "e", "g">>

s404Html ==
    <<"4", "0", "4", ".", "h", "t", "m", "l">>

s406Html ==
    <<"4", "0", "6", ".", "h", "t", "m", "l">>

s501Html ==
    <<"5", "0", "1", ".", "h", "t", "m", "l">>

s200 ==
    <<"2", "0", "0", " ", "O", "K">>

s404 ==
    <<"4", "0", "4", " ", "N", "O", "T", " ", "F", "O", "U", "N", "D">>

s406 ==
    <<"4", "0", "6", " ", "N", "O", "T", " ", "A", "C", "C", "E", "P", "T",
      "A", "B", "L", "E">>

s501 ==
    <<"5", "0", "1", " ", "N", "O", "T", " ", "I", "M", "P", "L", "E", "M",
      "E", "N", "T", "E", "D">>

sDate ==
    <<"D", "a", "t", "e">>

sServer ==
    <<"S", "e", "r", "v", "e", "r">>

sMiServidor ==
    <<"M", "i", "S", "e", "r", "v", "i", "d", "o", "r", "/", "1", ".", "0">>

sContentLength ==
    <<"C", "o", "n", "t", "e", "n", "t", "-", "L", "e", "n", "g", "t", "h">>

sContentType ==
    <<"C", "o", "n", "t", "e", "n", "t", "-", "T", "y", "p", "e">>

sHttp11 ==
    <<"H", "T", "T", "P", "/", "1", ".", "1", " ">>

sVersion ==
    <<"H", "T", "T", "P", "/", "1", ".", "1">>


CRLF == <<"\r", "\n">>

-----------------------------------------------------------------------------
(* A JS object used as a property bag: the pairs <<key, value>> in          *)
(* insertion order, keys unique (Object.keys lists non-index keys in        *)
(* insertion order; the model uses no integer-like key).                    *)

ObjHas(o, k) == \E i \in 1..Len(o) : o[i][1] = k

(* o[k], Null when the property is undefined. *)
ObjGet(o, k) ==
    IF ObjHas(o, k) THEN Some(o[CHOOSE i \in 1..Len(o) : o[i][1] = k][2])
    ELSE Null

(* o[k] = v *)
ObjSet(o, k, v) ==
    IF ObjHas(o, k)
    THEN [i \in 1..Len(o) |-> IF o[i][1] = k THEN <<k, v>> ELSE o[i]]
    ELSE Append(o, <<k, v>>)

-----------------------------------------------------------------------------
(* Request Parser *)

(* queryString.parse of the 'query-string' package on '?a=b&c=d': the       *)
(* leading '?' dropped, pairs split on '&' and on the first '='.            *)
QueryStringParse(q) ==
    LET body  == IF q # <<>> /\ Head(q) = "?" THEN Tail(q) ELSE q
        pairs == IF body = <<>> THEN <<>> ELSE split(body, <<"&">>)
        Key(p) == IF indexOf(p, <<"=">>) < 0 THEN p
                  ELSE substring(p, 0, indexOf(p, <<"=">>))
        Val(p) == IF indexOf(p, <<"=">>) < 0 THEN Null
                  ELSE Some(substringFrom(p, indexOf(p, <<"=">>) + 1))
        F[i \in 0..Len(pairs)] ==
            IF i = 0 THEN <<>> ELSE ObjSet(F[i - 1], Key(pairs[i]), Val(pairs[i]))
    IN  F[Len(pairs)]

RECURSIVE JoinRemainingParts(_, _, _)
(* util.js:88-90: append ':' and each further part of the split line. *)
JoinRemainingParts(headerValue, lineParts, i) ==
    IF i > Len(lineParts) THEN headerValue
    ELSE JoinRemainingParts(headerValue \o <<":">> \o lineParts[i], lineParts, i + 1)

(* The header value of a line split on ':' (util.js:81-90). *)
HeaderValueOf(lineParts) ==
    LET first == lineParts[2]
        noLeadingSpace == IF first # <<>> /\ Head(first) = " " THEN Tail(first)
                          ELSE first
    IN  JoinRemainingParts(noLeadingSpace, lineParts, 3)

(* One turn of lines.forEach (util.js:76-100) on the parse state           *)
(* [headers, body, isBody].                                                 *)
ParseLine(st, line) ==
    LET lineParts == split(line, <<":">>)
        done ==
            IF ~st.isBody
            THEN IF Len(lineParts) > 1
                 THEN [st EXCEPT !.headers =
                          ObjSet(@, lineParts[1], HeaderValueOf(lineParts))]
                 ELSE st
            ELSE [st EXCEPT !.body = Some(line)]
    IN  [done EXCEPT !.isBody = @ \/ line = <<>>]

ParseLines(lines) ==
    LET F[i \in 0..Len(lines)] ==
            IF i = 0 THEN [headers |-> <<>>, body |-> Null, isBody |-> FALSE]
            ELSE ParseLine(F[i - 1], lines[i])
    IN  F[Len(lines)]

(* parseRequest(requestText): Ok(request), or Throw when firstLineParts[1] *)
(* is undefined and .indexOf is called on it.                               *)
parseRequest(requestText) ==
    LET lines == split(requestText, CRLF)
        firstLineParts == split(lines[1], <<" ">>)
    IN  IF Len(firstLineParts) < 2 THEN Throw
        ELSE LET target == firstLineParts[2]
                 q == indexOf(target, <<"?">>)
                 st == ParseLines(lines)
             IN  Ok([headers  |-> st.headers,
                     method   |-> firstLineParts[1],
                     resource |-> IF q >= 0 THEN substring(target, 0, q) ELSE target,
                     params   |-> IF q >= 0 THEN QueryStringParse(substringFrom(target, q))
                                  ELSE <<>>,
                     body     |-> st.body])

-----------------------------------------------------------------------------
(* The served root (env.WWW_PATH): file name -> bytes.  index.html holds a  *)
(* two-byte UTF-8 character, proceso.html the placeholder %%m%% twice and   *)
(* %%x%% once, imagen4.jpeg bytes that are not UTF-8.                       *)

www ==
    (sIndexHtml :> <<"<", "p", ">", "0xC3", "0xA9", "<", "/", "p", ">">>)
    @@ (sProcesoHtml :> <<"%", "%", "m", "%", "%", " ", "%", "%", "m", "%", "%",
                          " ", "%", "%", "x", "%", "%">>)
    @@ (sImagen4Jpeg :> <<"0xFF", "J", "F">>)
    @@ (s404Html :> <<"4", "0", "4", "!">>)
    @@ (s406Html :> <<"4", "0", "6", "!", "!">>)
    @@ (s501Html :> <<"5", "0", "1", "!", "!", "!">>)

(* fs.existsSync of wwwPath/name *)
existsSync(name) == name \in DOMAIN www

(* fs.readFileSync of wwwPath/name, an existing file *)
readFileSync(name) == www[name]

-----------------------------------------------------------------------------
(* Mime Classifier *)

(* String.prototype.lastIndexOf(c) of a single character, searched in    *)
(* s[1..i], 0-based, -1 when absent.                                        *)
LastIndexOf(s, c, i) ==
    LET hits == {k \in 1..i : s[k] = c}
    IN  IF hits = {} THEN -1
        ELSE (CHOOSE k \in hits : \A j \in hits : j <= k) - 1

(* mime.lookup(path) of the 'mime-types' package: the type of the           *)
(* extension of 'x.' + path, false (Null) when there is none or it is      *)
(* unknown.  Only the extensions the served root uses are tabulated.        *)
mimeLookup(path) ==
    LET full == <<"x", ".">> \o path
        base == substringFrom(full, LastIndexOf(full, "/", Len(full)) + 1)
        dot  == LastIndexOf(base, ".", Len(base))
        ext  == IF dot <= 0 THEN <<>> ELSE substringFrom(base, dot + 1)
    IN  CASE ext = sHtml -> Some(sTextHtml)
          [] ext = sJpeg -> Some(sImageJpeg)
          [] ext = sPng  -> Some(sImagePng)
          [] ext = sGif  -> Some(sImageGif)
          [] OTHER -> Null

(* getMimeTypeParts(mimeType) *)
getMimeTypeParts(mimeType) ==
    LET trimmed == trim(mimeType)
        semi == indexOf(trimmed, <<";">>)
        parsedType == IF semi >= 0 THEN substring(trimmed, 0, semi) ELSE trimmed
    IN  split(parsedType, <<"/">>)

(* The template literal typeParts[0] + '/' + typeParts[1] (util.js:392). *)
JoinMimeTypeParts(typeParts) ==
    typeParts[1] \o <<"/">> \o (IF Len(typeParts) >= 2 THEN typeParts[2] ELSE sUndefined)

(* parseMimeTypeList(mimeTypesAsString): the argument is Null when the      *)
(* header is undefined, and .split on undefined throws.                     *)
parseMimeTypeList(mimeTypesAsString) ==
    IF mimeTypesAsString = Null THEN Throw
    ELSE LET entries == split(mimeTypesAsString[1], <<",">>)
         IN  Ok([i \in 1..Len(entries) |->
                    JoinMimeTypeParts(getMimeTypeParts(entries[i]))])

(* Array.prototype.indexOf(x) === -1 for a mime type that is a string or   *)
(* false (Null): false is never an element of the list of strings.          *)
NotInList(list, x) == x = Null \/ \A i \in 1..Len(list) : list[i] # x[1]

(* mimeTypeIsAccepted(resourceMimeType, acceptedMimeTypes) *)
mimeTypeIsAccepted(resourceMimeType, acceptedMimeTypes) ==
    ~(NotInList(acceptedMimeTypes, resourceMimeType)
      /\ NotInList(acceptedMimeTypes, Some(sAnyType)))

(* mimeTypeIsHtml(mimeType): throws on false (no .trim). *)
mimeTypeIsHtml(mimeType) ==
    IF mimeType = Null THEN Throw
    ELSE LET mimeParts == getMimeTypeParts(mimeType[1])
         IN  Ok(mimeParts[1] = sText /\ Len(mimeParts) >= 2 /\ mimeParts[2] = sHtml)

-----------------------------------------------------------------------------
(* Template Engine *)

RECURSIVE GetSubstitution(_, _, _, _)
(* The replacement text of String.prototype.replace for a string pattern   *)
(* (no captures): $$ is $, $& the match, $ and a grave accent (written     *)
(* "U+0060") the text before it, $ and an apostrophe (written "U+0027")    *)
(* the text after it; any other $ stands for itself.                        *)
GetSubstitution(replacement, matched, before, after) ==
    IF replacement = <<>> THEN <<>>
    ELSE IF Head(replacement) = "$" /\ Len(replacement) >= 2
              /\ replacement[2] \in {"$", "&", "U+0060", "U+0027"}
         THEN (CASE replacement[2] = "$" -> <<"$">>
                 [] replacement[2] = "&" -> matched
                 [] replacement[2] = "U+0060" -> before
                 [] replacement[2] = "U+0027" -> after)
              \o GetSubstitution(SubSeq(replacement, 3, Len(replacement)),
                                 matched, before, after)
    ELSE <<Head(replacement)>>
         \o GetSubstitution(Tail(replacement), matched, before, after)

(* String.prototype.replace(pattern, replacement), both strings: the first *)
(* occurrence only.                                                         *)
replace(s, pattern, replacement) ==
    LET k == indexOf(s, pattern)
    IN  IF k < 0 THEN s
        ELSE LET before == substring(s, 0, k)
                 after  == substringFrom(s, k + Len(pattern))
             IN  before \o GetSubstitution(replacement, pattern, before, after)
                        \o after

(* The template literal '%%' + key + '%%' (util.js:333). *)
Placeholder(key) == <<"%", "%">> \o key \o <<"%", "%">>

(* ToString of a property value: undefined (Null) reads 'undefined'. *)
ValueToString(v) == IF v = Null THEN sUndefined ELSE v[1]

(* One turn of Object.keys(params).forEach (util.js:332-336). *)
SubstituteKey(template, key, value) ==
    IF indexOf(template, Placeholder(key)) >= 0
    THEN replace(template, Placeholder(key), ValueToString(value))
    ELSE template

(* runCGI(data, params) *)
runCGI(data, params) ==
    LET F[i \in 0..Len(params)] ==
            IF i = 0 THEN BufferToString(data)
            ELSE SubstituteKey(F[i - 1], params[i][1], params[i][2])
    IN  BufferFrom(F[Len(params)])

RECURSIVE ReplaceAllPlus(_)
(* part.replace(/\+/g, '%20') *)
ReplaceAllPlus(s) ==
    IF s = <<>> THEN <<>>
    ELSE (IF Head(s) = "+" THEN <<"%", "2", "0">> ELSE <<Head(s)>>)
         \o ReplaceAllPlus(Tail(s))

(* The percent escapes the model's inputs use, and what they decode to. *)
EscapeTable == (<<"2", "0">> :> " ") @@ (<<"2", "4">> :> "$") @@ (<<"2", "5">> :> "%")

RECURSIVE EscapesWellFormed(_)
EscapesWellFormed(s) ==
    IF s = <<>> THEN TRUE
    ELSE IF Head(s) # "%" THEN EscapesWellFormed(Tail(s))
    ELSE /\ Len(s) >= 3
         /\ <<s[2], s[3]>> \in DOMAIN EscapeTable
         /\ EscapesWellFormed(SubSeq(s, 4, Len(s)))

RECURSIVE DecodeEscapes(_)
DecodeEscapes(s) ==
    IF s = <<>> THEN <<>>
    ELSE IF Head(s) # "%" THEN <<Head(s)>> \o DecodeEscapes(Tail(s))
    ELSE <<EscapeTable[<<s[2], s[3]>>]>> \o DecodeEscapes(SubSeq(s, 4, Len(s)))

(* decodeURIComponent(s): throws URIError on a malformed escape. *)
decodeURIComponent(s) ==
    IF EscapesWellFormed(s) THEN Ok(DecodeEscapes(s)) ELSE Throw

(* parseFormUrlEncoded(body) *)
parseFormUrlEncoded(body) ==
    LET props == split(body, <<"&">>)
        Parts(i) == split(props[i], <<"=">>)
        Decoded(i, j) == decodeURIComponent(ReplaceAllPlus(Parts(i)[j]))
        F[i \in 0..Len(props)] ==
            IF i = 0 THEN <<>>
            ELSE ObjSet(F[i - 1], Decoded(i, 1).val,
                        IF Len(Parts(i)) >= 2 THEN Some(Decoded(i, 2).val) ELSE Null)
    IN  IF \E i \in 1..Len(props) : \E j \in 1..Len(Parts(i)) : Decoded(i, j).threw
        THEN Throw
        ELSE Ok(F[Len(props)])

-----------------------------------------------------------------------------
(* Response Builder *)

(* moment().format('ddd, MMMM Do YYYY HH:mm:ss Z'): the clock is outside   *)
(* the model; one fixed text stands for the formatted time.                 *)
Now == <<"n", "o", "w">>

(* createResponseObject(statusCode, headers, body) *)
createResponseObject(statusCode, headers, body) ==
    [statusCode |-> statusCode, headers |-> headers, body |-> body]

(* BodyLength with the length taken of the body as a string. *)
BodyLengthInCharacters(body) ==
    IF body # Null THEN Len(BufferToString(body[1])) ELSE 0

(* body ? body.length : 0, body a Buffer (truthy even when empty) or null *)
BodyLength(body) == IF body # Null THEN Len(body[1]) ELSE 0

(* The headers literal of the four builders. *)
StandardHeaders(body, contentType) ==
    << <<sDate, Str(Now)>>,
       <<sServer, Str(sMiServidor)>>,
       <<sContentLength, Num(BodyLength(body))>>,
       <<sContentType, contentType>> >>

(* create200Response(body, contentType): contentType is what mime.lookup   *)
(* returned, a string or false.                                             *)
create200Response(body, contentType) ==
    createResponseObject(s200,
        StandardHeaders(body, IF contentType = Null THEN [bool |-> FALSE]
                              ELSE Str(contentType[1])),
        body)

create404Response ==
    LET body == Some(readFileSync(s404Html))
    IN  createResponseObject(s404, StandardHeaders(body, Str(sTextHtml)), body)

create406Response ==
    LET body == Some(readFileSync(s406Html))
    IN  createResponseObject(s406, StandardHeaders(body, Str(sTextHtml)), body)

create501Response ==
    LET body == Some(readFileSync(s501Html))
    IN  createResponseObject(s501, StandardHeaders(body, Str(sTextHtml)), body)

-----------------------------------------------------------------------------
(* Response Serializer *)

(* A header value inside the template literal of util.js:149. *)
HeaderValueToString(v) ==
    IF "num" \in DOMAIN v THEN NumberToString(v.num)
    ELSE IF "str" \in DOMAIN v THEN v.str
    ELSE <<"f", "a", "l", "s", "e">>

(* responseToBuffer(response) *)
responseToBuffer(response) ==
    LET h == response.headers
        F[i \in 0..Len(h)] ==
            IF i = 0 THEN sHttp11 \o response.statusCode \o CRLF
            ELSE F[i - 1] \o h[i][1] \o <<":", " ">> \o HeaderValueToString(h[i][2])
                          \o CRLF
        responseString == F[Len(h)] \o CRLF
    IN  IF response.body # Null
        THEN BufferFrom(responseString) \o response.body[1]
        ELSE BufferFrom(responseString)

-----------------------------------------------------------------------------
(* Resource Resolver *)

(* getReqResourceName(req) *)
getReqResourceName(req) ==
    LET resourceName == substringFrom(req.resource, 1)
    IN  IF resourceName = <<>> THEN sIndexHtml ELSE resourceName

(* req.body as a condition: null and '' are falsy. *)
Truthy(body) == body # Null /\ body[1] # <<>>

(* util.js:195-201 and 246-252: read the file, run it through runCGI when  *)
(* the request has a body and the file is text/html, build the 200.         *)
ServeFile(req, resourceName, resourceMimeType) ==
    LET data == readFileSync(resourceName)
        isHtml == mimeTypeIsHtml(mimeLookup(resourceName))
        form == parseFormUrlEncoded(req.body[1])
    IN  IF ~Truthy(req.body)
        THEN Ok(create200Response(Some(data), resourceMimeType))
        ELSE IF isHtml.threw THEN Throw
        ELSE IF ~isHtml.val
        THEN Ok(create200Response(Some(data), resourceMimeType))
        ELSE IF form.threw THEN Throw
        ELSE Ok(create200Response(Some(runCGI(data, form.val)), resourceMimeType))

processGet(req) ==
    LET resourceName == getReqResourceName(req)
        resourceExists == existsSync(resourceName)
        resourceMimeType == mimeLookup(resourceName)
        acceptedMimeTypes == parseMimeTypeList(ObjGet(req.headers, sAccept))
    IN  IF acceptedMimeTypes.threw THEN Throw
        ELSE IF ~resourceExists THEN Ok(create404Response)
        ELSE IF ~mimeTypeIsAccepted(resourceMimeType, acceptedMimeTypes.val)
        THEN Ok(create406Response)
        ELSE ServeFile(req, resourceName, resourceMimeType)

(* processHead that answers as processGet does, body included. *)
processHeadWithBody(req) == processGet(req)

processHead(req) ==
    LET resourceName == getReqResourceName(req)
        resourceExists == existsSync(resourceName)
        resourceMimeType == mimeLookup(resourceName)
        acceptedMimeTypes == parseMimeTypeList(ObjGet(req.headers, sAccept))
    IN  IF acceptedMimeTypes.threw THEN Throw
        ELSE IF ~resourceExists THEN Ok(create404Response)
        ELSE IF ~mimeTypeIsAccepted(resourceMimeType, acceptedMimeTypes.val)
        THEN Ok(create406Response)
        ELSE Ok(create200Response(Null, resourceMimeType))

processPost(req) ==
    LET resourceName == getReqResourceName(req)
        resourceExists == existsSync(resourceName)
        resourceMimeType == mimeLookup(resourceName)
        acceptedMimeTypes == parseMimeTypeList(ObjGet(req.headers, sAccept))
    IN  IF acceptedMimeTypes.threw THEN Throw
        ELSE IF ~resourceExists THEN Ok(create404Response)
        ELSE IF ~mimeTypeIsAccepted(resourceMimeType, acceptedMimeTypes.val)
        THEN Ok(create406Response)
        ELSE ServeFile(req, resourceName, resourceMimeType)

(* createResponse without the default case: another method is handled as  *)
(* a POST.                                                                  *)
createResponseNoDefault(req) ==
    CASE req.method = sGET  -> processGet(req)
      [] req.method = sHEAD -> processHead(req)
      [] OTHER -> processPost(req)

(* createResponse(req): Ok(response), or Throw when the dispatch target    *)
(* throws.                                                                  *)
createResponse(req) ==
    CASE req.method = sGET  -> processGet(req)
      [] req.method = sHEAD -> processHead(req)
      [] req.method = sPOST -> processPost(req)
      [] OTHER -> Ok(create501Response)

-----------------------------------------------------------------------------
(* Bounds and inputs *)

(* The network hands the server the request in pieces whose length is a     *)
(* multiple of SegmentSize, the last piece excepted.                        *)
SegmentSize == 8

(* A template document is made of at most MaxFragments fragments. *)
MaxFragments == 3

(* A params object has at most MaxParams keys. *)
MaxParams == 2

RECURSIVE JoinTokens(_)
(* The present tokens of a request line, one space between two. *)
JoinTokens(tokens) ==
    IF tokens = <<>> THEN <<>>
    ELSE IF Head(tokens) = Null THEN JoinTokens(Tail(tokens))
    ELSE IF JoinTokens(Tail(tokens)) = <<>> THEN Head(tokens)[1]
    ELSE Head(tokens)[1] \o <<" ">> \o JoinTokens(Tail(tokens))

MethodTokens == {Null, Some(sGET), Some(sHEAD), Some(sPOST), Some(sPUT)}

TargetTokens ==
    {Null,
     Some(<<"/">>),
     Some(<<"/">> \o sIndexHtml \o <<"?", "a", "=", "b">>),
     Some(<<"/", "n", "o", ".", "h", "t", "m", "l">>),
     Some(<<"/">> \o sImagen4Jpeg),
     Some(<<"/">> \o sProcesoHtml),
     Some(<<"/", "a", ":", "b">>)}

VersionTokens == {Null, Some(sVersion)}

(* The value of the Accept header; Null: the request has no such header. *)
AcceptValues ==
    {Null,
     Some(sAnyType),
     Some(sTextHtml),
     Some(sImageAny),
     Some(sImageGif \o <<",", " ">> \o sTextHtml \o <<";", "q", "=", "1">>)}

Bodies == {<<>>, <<"m", "=", "a", "+", "b">>}

(* The text of a request: request line, Accept header, blank line, body. *)
RequestText(method, target, version, accept, body) ==
    JoinTokens(<<method, target, version>>) \o CRLF
    \o (IF accept = Null THEN <<>> ELSE sAccept \o <<":", " ">> \o accept[1] \o CRLF)
    \o CRLF \o body

Requests ==
    {RequestText(m, t, v, a, b) :
        m \in MethodTokens, t \in TargetTokens, v \in VersionTokens,
        a \in AcceptValues, b \in Bodies}

(* The requests whose first line lacks the method or the target. *)
MalformedRequests ==
    {RequestText(m, t, v, a, b) :
        m \in MethodTokens, t \in {Null}, v \in VersionTokens,
        a \in AcceptValues, b \in Bodies}
    \cup
    {RequestText(m, t, v, a, b) :
        m \in {Null}, t \in TargetTokens, v \in VersionTokens,
        a \in AcceptValues, b \in Bodies}

(* The lengths of the next 'data' event. *)
ChunkLengths(pending) ==
    {n \in 1..Len(pending) : n = Len(pending) \/ n % SegmentSize = 0}

-----------------------------------------------------------------------------
(* The connection handler of index.js *)

Init ==
    /\ requestBytes \in Requests
    /\ unsent = requestBytes
    /\ chunks = <<>>
    /\ parsed = <<>>
    /\ parseCalls = 0
    /\ responses = <<>>
    /\ createCalls = 0
    /\ writeCalls = 0
    /\ wire = <<>>
    /\ ended = FALSE
    /\ conn = "open"
    /\ crashed = FALSE
    /\ cgiData = <<>>
    /\ cgiParams = <<>>
    /\ cgiOut = <<>>
    /\ cgiPc = "idle"

(* conn.on('data') -> dataStream$.next(data) -> the subscriber (index.js   *)
(* 16-33): parseRequest, createResponse, conn.write, conn.end.  A throw in *)
(* the subscriber is caught by nobody and ends the process.  conn.write    *)
(* after conn.end() makes the socket emit 'error', whose handler           *)
(* (index.js 39-41) throws.                                                 *)
OnData(n) ==
    /\ conn = "open"
    /\ ~crashed
    /\ n \in ChunkLengths(unsent)
    /\ LET data == SubSeq(unsent, 1, n)
           request == parseRequest(BufferToString(data))
           response == createResponse(request.val)
       IN  /\ unsent' = SubSeq(unsent, n + 1, Len(unsent))
           /\ chunks' = Append(chunks, data)
           /\ parseCalls' = parseCalls + 1
           /\ IF request.threw
              THEN /\ crashed' = TRUE
                   /\ UNCHANGED <<parsed, responses, createCalls, writeCalls,
                                  wire, ended>>
              ELSE /\ parsed' = Append(parsed, request.val)
                   /\ createCalls' = createCalls + 1
                   /\ IF response.threw
                      THEN /\ crashed' = TRUE
                           /\ UNCHANGED <<responses, writeCalls, wire, ended>>
                      ELSE /\ responses' = Append(responses, response.val)
                           /\ writeCalls' = writeCalls + 1
                           /\ wire' = IF ended THEN wire
                                      ELSE wire \o responseToBuffer(response.val)
                           /\ crashed' = ended
                           /\ ended' = TRUE
    /\ UNCHANGED <<requestBytes, conn, cgiVars>>

(* The client closes its side: the 'end' handler (index.js 49) does        *)
(* nothing, and the socket, not half-open, ends its own side.              *)
ClientEnd ==
    /\ conn = "open"
    /\ ~crashed
    /\ conn' = "clientEnded"
    /\ ended' = TRUE
    /\ UNCHANGED <<requestBytes, unsent, chunks, parsed, parseCalls, responses,
                   createCalls, writeCalls, wire, crashed, cgiVars>>

(* handleSocketTimeout: conn.destroy() after 80 s without traffic. *)
Timeout ==
    /\ conn = "open"
    /\ ~crashed
    /\ conn' = "destroyed"
    /\ UNCHANGED <<requestBytes, unsent, chunks, parsed, parseCalls, responses,
                   createCalls, writeCalls, wire, ended, crashed, cgiVars>>

Next ==
    \/ \E n \in 1..Len(unsent) : OnData(n)
    \/ ClientEnd
    \/ Timeout

Spec == Init /\ [][Next]_vars

-----------------------------------------------------------------------------
(* runCGI on its own: documents (UTF-8 text, as runCGI's contract says)    *)
(* and params from bounded sets.                                            *)

Fragments ==
    {Placeholder(<<"a">>), Placeholder(<<"b">>), <<"x">>, <<"0xC3", "0xA9">>}

RECURSIVE Flatten(_)
Flatten(ss) == IF ss = <<>> THEN <<>> ELSE Head(ss) \o Flatten(Tail(ss))

Documents ==
    {Flatten(fs) : fs \in UNION {[1..k -> Fragments] : k \in 0..MaxFragments}}

ParamKeys == {<<"a">>, <<"b">>}

ParamValues == {<<"v">>, <<"$", "&">>, <<"$", "$">>, Placeholder(<<"b">>)}

(* The params objects: distinct keys, in any insertion order. *)
ParamObjects ==
    {ps \in UNION {[1..k -> ParamKeys \X {Some(v) : v \in ParamValues}] :
                      k \in 0..MaxParams} :
        \A i, j \in 1..Len(ps) : i # j => ps[i][1] # ps[j][1]}

InitCGI ==
    /\ requestBytes = <<>>
    /\ unsent = <<>>
    /\ chunks = <<>>
    /\ parsed = <<>>
    /\ parseCalls = 0
    /\ responses = <<>>
    /\ createCalls = 0
    /\ writeCalls = 0
    /\ wire = <<>>
    /\ ended = FALSE
    /\ conn = "open"
    /\ crashed = FALSE
    /\ cgiData \in Documents
    /\ cgiParams \in ParamObjects
    /\ cgiOut = <<>>
    /\ cgiPc = "ready"

RunCGI ==
    /\ cgiPc = "ready"
    /\ cgiOut' = runCGI(cgiData, cgiParams)
    /\ cgiPc' = "done"
    /\ UNCHANGED <<cgiData, cgiParams, connVars>>

NextCGI == RunCGI

SpecCGI == InitCGI /\ [][NextCGI]_vars

-----------------------------------------------------------------------------
(* Vocabulary of the properties.  responses[i] answers parsed[i]: a        *)
(* createResponse that throws ends the process, so only the last parsed    *)
(* request can lack its response.                                           *)

SupportedMethods == {sGET, sHEAD, sPOST}

HasAccept(req) == ObjHas(req.headers, sAccept)

ResourceExists(req) == existsSync(getReqResourceName(req))

Answered(i) == i <= Len(responses)

ResponseHeader(res, key) == ObjGet(res.headers, key)

Bytes(s) == {s[i] : i \in 1..Len(s)}

(* The request of the whole byte stream, parsed in one piece. *)
WholeRequest == parseRequest(BufferToString(requestBytes))

-----------------------------------------------------------------------------
(* C1: once a response has been produced on the connection, the server has *)
(* parsed exactly one request, built exactly one response and called       *)
(* conn.write exactly once, however many chunks arrived.                    *)
C1_OneRequestPerConnection ==
    Len(responses) >= 1 => parseCalls = 1 /\ createCalls = 1 /\ writeCalls = 1

(* C2: when all the bytes of a request have arrived in two or more chunks, *)
(* the server has parsed one Request, the Request of the concatenation.    *)
C2_ChunksParsedAsOne ==
    (Len(chunks) >= 2 /\ unsent = <<>> /\ ~WholeRequest.threw)
        => parsed = <<WholeRequest.val>>

(* C3: a GET, HEAD or POST without Accept header for an existing resource  *)
(* is answered 200 (no 406, no fatal failure).                              *)
C3_NoAcceptMeansAny ==
    \A i \in 1..Len(parsed) :
        (parsed[i].method \in SupportedMethods /\ ~HasAccept(parsed[i])
            /\ ResourceExists(parsed[i]))
        => (Answered(i) /\ responses[i].statusCode = s200)

(* C4: a GET, HEAD or POST for a file that does not exist is answered      *)
(* 404 NOT FOUND with the contents of 404.html, whatever its headers.      *)
C4_MissingFileIs404 ==
    \A i \in 1..Len(parsed) :
        (parsed[i].method \in SupportedMethods /\ ~ResourceExists(parsed[i]))
        => (/\ Answered(i)
            /\ responses[i].statusCode = s404
            /\ responses[i].body = Some(www[s404Html]))

(* C5: a request whose method is not GET, HEAD or POST is answered         *)
(* 501 NOT IMPLEMENTED with the contents of 501.html, whatever its         *)
(* resource, Accept header and body.                                        *)
C5_OtherMethodIs501 ==
    \A i \in 1..Len(parsed) :
        parsed[i].method \notin SupportedMethods
        => (/\ Answered(i)
            /\ responses[i].statusCode = s501
            /\ responses[i].body = Some(www[s501Html]))

(* C5 happens: a PUT without Accept header, for a file that does not       *)
(* exist, with a body, has been answered.                                   *)
C5_Witness ==
    /\ Len(responses) >= 1
    /\ parsed[1].method = sPUT
    /\ ~HasAccept(parsed[1])
    /\ ~ResourceExists(parsed[1])
    /\ Truthy(parsed[1].body)
    /\ responses[1].statusCode = s501

(* C6: a GET with Accept: image/* for an existing resource whose mime type *)
(* is image/... is answered 200.                                            *)
C6_TypeWildcardAccepted ==
    \A i \in 1..Len(parsed) :
        (/\ parsed[i].method = sGET
         /\ ObjGet(parsed[i].headers, sAccept) = Some(sImageAny)
         /\ ResourceExists(parsed[i])
         /\ mimeLookup(getReqResourceName(parsed[i])) # Null
         /\ split(mimeLookup(getReqResourceName(parsed[i]))[1], <<"/">>)[1]
                = <<"i", "m", "a", "g", "e">>)
        => (Answered(i) /\ responses[i].statusCode = s200)

(* C7: every response createResponse produced has a Content-Length header  *)
(* equal to the number of bytes of its body, 0 when the body is absent.    *)
C7_ContentLengthIsBodyLength ==
    \A i \in 1..Len(responses) :
        ResponseHeader(responses[i], sContentLength)
            = Some(Num(IF responses[i].body = Null THEN 0
                       ELSE Len(responses[i].body[1])))

(* C7 happens: a 200 response carries a body with a two-byte character,    *)
(* whose byte length is not its length in characters.                      *)
C7_Witness ==
    /\ Len(responses) >= 1
    /\ responses[1].statusCode = s200
    /\ responses[1].body # Null
    /\ "0xC3" \in Bytes(responses[1].body[1])
    /\ Len(BufferToString(responses[1].body[1])) # Len(responses[1].body[1])

(* The request is a HEAD for an existing resource whose mime type its      *)
(* Accept header accepts.                                                   *)
AcceptedHead(req) ==
    /\ req.method = sHEAD
    /\ ResourceExists(req)
    /\ HasAccept(req)
    /\ mimeTypeIsAccepted(mimeLookup(getReqResourceName(req)),
                          parseMimeTypeList(ObjGet(req.headers, sAccept)).val)

(* C8: a HEAD for an existing, accepted resource is answered 200 OK with   *)
(* no body, Content-Length 0 and the Content-Type of the file; what goes   *)
(* on the wire ends with the blank line after the headers.                 *)
C8_HeadHasNoBody ==
    (Len(parsed) >= 1 /\ AcceptedHead(parsed[1]))
    => (/\ Answered(1)
        /\ responses[1].statusCode = s200
        /\ responses[1].body = Null
        /\ ResponseHeader(responses[1], sContentLength) = Some(Num(0))
        /\ ResponseHeader(responses[1], sContentType)
              = Some(Str(mimeLookup(getReqResourceName(parsed[1]))[1]))
        /\ indexOf(wire, CRLF \o CRLF) = Len(wire) - 4)

(* C8 happens: an accepted HEAD for index.html has been answered. *)
C8_Witness ==
    /\ Len(responses) >= 1
    /\ AcceptedHead(parsed[1])
    /\ getReqResourceName(parsed[1]) = sIndexHtml
    /\ wire # <<>>

(* C9: a request whose first line lacks the method or the target is fatal: *)
(* parseRequest returns no Request and nothing is written.                 *)
C9_MalformedRequestLineIsFatal ==
    (requestBytes \in MalformedRequests /\ chunks = <<requestBytes>>)
    => (crashed /\ parsed = <<>> /\ responses = <<>> /\ writeCalls = 0)

(* What C10 describes: for each key in turn, the first occurrence of the   *)
(* bytes of %%key%% gives way to the bytes of the value, and nothing else  *)
(* changes.                                                                 *)
LiteralRender(data, params) ==
    LET Splice(doc, pat, val) ==
            LET k == indexOf(doc, pat)
            IN  IF k < 0 THEN doc
                ELSE substring(doc, 0, k) \o val \o substringFrom(doc, k + Len(pat))
        F[i \in 0..Len(params)] ==
            IF i = 0 THEN data
            ELSE Splice(F[i - 1], BufferFrom(Placeholder(params[i][1])),
                        BufferFrom(ValueToString(params[i][2])))
    IN  F[Len(params)]

(* C10: runCGI replaces, for each key of params, only the first occurrence *)
(* of %%key%% with the key's value and leaves the rest of the document     *)
(* unchanged, byte for byte.                                                *)
C10_LiteralFirstOccurrence ==
    cgiPc = "done" => cgiOut = LiteralRender(cgiData, cgiParams)

(* The lines of the i-th chunk, as parseRequest sees them; parsed[i] is    *)
(* the Request of chunks[i], since a parseRequest that throws ends the     *)
(* process.                                                                 *)
ChunkLines(i) == split(BufferToString(chunks[i]), CRLF)

(* The lines strictly after the request line and before the first empty    *)
(* line.                                                                    *)
HeaderLineIndexes(lines) ==
    {j \in 2..Len(lines) : \A k \in 1..j : lines[k] # <<>>}

(* C11: every entry of the headers of a parsed Request comes from a line   *)
(* strictly after the request line and before the first empty line: its    *)
(* name is what precedes the first ':' of such a line.                      *)
C11_HeadersFromHeaderLinesOnly ==
    \A i \in 1..Len(parsed) :
        \A h \in 1..Len(parsed[i].headers) :
            \E j \in HeaderLineIndexes(ChunkLines(i)) :
                /\ indexOf(ChunkLines(i)[j], <<":">>) >= 0
                /\ parsed[i].headers[h][1]
                      = substring(ChunkLines(i)[j], 0,
                                  indexOf(ChunkLines(i)[j], <<":">>))

====
